---- MODULE Spec2Model ----
(***************************************************************************)
(* Model of the codelens VS Code extension (src/unnamed/part_000):         *)
(* the pure helpers formatPath, formatSize, countFileTypes and             *)
(* calculateDirSize, the SelectedItemProvider (refresh / getChildren) and  *)
(* the event wiring done by activate.                                      *)
(*                                                                         *)
(* Strings are sequences of UTF-16 code units (integers); a vscode.Uri or  *)
(* undefined is a record [defined, fsPath].                                *)
(***************************************************************************)
EXTENDS Integers, Sequences, FiniteSets, TLC

VARIABLES
    pc,                \* position of the driver of the specification in use
    arg,               \* input of the pure function under check
    result,            \* its output
    currentSelection,  \* SelectedItemProvider.currentSelection
    workspaceRoot,     \* SelectedItemProvider.workspaceRoot
    fired,             \* number of _onDidChangeTreeData.fire() calls
    fs,                \* the filesystem: path -> node
    rows,              \* the row list last returned by getChildren
    last,              \* the last operation performed and its inputs
    pending,           \* handlers suspended on a promise
    clipboard,         \* the system clipboard text
    nextSeq            \* arrival number of the next external event

vars == <<pc, arg, result, currentSelection, workspaceRoot, fired, fs, rows,
          last, pending, clipboard, nextSeq>>

(***************************************************************************)
(* Character codes and string helpers.                                     *)
(***************************************************************************)
Slash == 47
Colon == 58
Dot == 46

Min(a, b) == IF a < b THEN a ELSE b
Max(a, b) == IF a > b THEN a ELSE b

\* String.prototype.substring(from, to), 0-based, to exclusive
Substring(s, from, to) ==
    LET f == Min(Max(from, 0), Len(s))
        t == Min(Max(to, 0), Len(s))
        lo == Min(f, t)
        hi == Max(f, t)
    IN  [i \in 1..(hi - lo) |-> s[lo + i]]

\* String.prototype.startsWith
StartsWith(s, pre) ==
    /\ Len(s) >= Len(pre)
    /\ \A i \in 1..Len(pre) : s[i] = pre[i]

\* String.prototype.includes
Includes(s, sub) ==
    \E k \in 0..(Len(s) - Len(sub)) : \A i \in 1..Len(sub) : s[k + i] = sub[i]

\* String.prototype.toLowerCase on the ASCII range
LowerChar(c) == IF c >= 65 /\ c <= 90 THEN c + 32 ELSE c
ToLowerCase(s) == [i \in 1..Len(s) |-> LowerChar(s[i])]

(***************************************************************************)
(* formatPath                                                              *)
(***************************************************************************)
maxLength == 40

formatPathNoOffset(filePath) ==
    IF Len(filePath) <= maxLength
    THEN filePath
    ELSE Substring(filePath, 0, maxLength \div 2)
           \o <<Dot, Dot, Dot>>
           \o Substring(filePath, Len(filePath) - (maxLength \div 2), Len(filePath))

formatPath(filePath) ==
    IF Len(filePath) <= maxLength
    THEN filePath
    ELSE LET start == Substring(filePath, 0, maxLength \div 2 - 3)
             end == Substring(filePath, Len(filePath) - (maxLength \div 2 - 3),
                              Len(filePath))
         IN  start \o <<Dot, Dot, Dot>> \o end

(***************************************************************************)
(* formatSize                                                              *)
(***************************************************************************)
KiB == 1024
MiB == 1024 * 1024

\* (bytes / unit).toFixed(1) for unit = unitHi * unitLo: the quotient is exact
\* in a double (unit is a power of two), and toFixed picks the nearest
\* multiple of 0.1, the larger one on a tie.  The unit is split in two
\* factors so that no intermediate product exceeds 32 bits.
ToFixed1(bytes, unitHi, unitLo) ==
    LET unit == unitHi * unitLo
        q == bytes \div unit
        r == bytes % unit
        rh == r \div unitLo
        rl == r % unitLo
        e == (10 * rh + unitHi \div 2 + (10 * rl) \div unitLo) \div unitHi
        tenths == 10 * q + e
    IN  [int |-> tenths \div 10, frac |-> <<tenths % 10>>]

formatSizeDecimal(bytes) ==
    IF bytes < 1000
    THEN [num |-> [int |-> bytes, frac |-> <<>>], unit |-> "bytes"]
    ELSE IF bytes < 1000 * 1000
    THEN [num |-> ToFixed1(bytes, KiB, 1), unit |-> "KB"]
    ELSE IF bytes < 1000 * 1000 * 1000
    THEN [num |-> ToFixed1(bytes, MiB, 1), unit |-> "MB"]
    ELSE [num |-> ToFixed1(bytes, MiB, KiB), unit |-> "GB"]

formatSize(bytes) ==
    IF bytes < 1024
    THEN [num |-> [int |-> bytes, frac |-> <<>>], unit |-> "bytes"]
    ELSE IF bytes < 1024 * 1024
    THEN [num |-> ToFixed1(bytes, KiB, 1), unit |-> "KB"]
    ELSE IF bytes < 1024 * 1024 * 1024
    THEN [num |-> ToFixed1(bytes, MiB, 1), unit |-> "MB"]
    ELSE [num |-> ToFixed1(bytes, MiB, KiB), unit |-> "GB"]

(***************************************************************************)
(* The filesystem.  A node is what statSync / readdirSync see at a path:   *)
(* kind "missing" makes statSync throw; a directory node carries the       *)
(* entries of its listing, each with the outcome of statSync on the child. *)
(***************************************************************************)
Node(kind, size, birthtime, mtime, mode, entries) ==
    [kind |-> kind, size |-> size, birthtime |-> birthtime, mtime |-> mtime,
     mode |-> mode, entries |-> entries]

Entry(name, ok, isDir, size) ==
    [name |-> name, ok |-> ok, isDir |-> isDir, size |-> size]

Undefined == [defined |-> FALSE, fsPath |-> <<>>]
Uri(p) == [defined |-> TRUE, fsPath |-> p]

\* fs.statSync(p) throws
StatThrows(fsys, p) == p \notin DOMAIN fsys \/ fsys[p].kind = "missing"

\* fs.existsSync(p)
existsSync(fsys, p) == p \in DOMAIN fsys /\ fsys[p].kind # "missing"

(***************************************************************************)
(* path.basename / path.extname (posix)                                    *)
(***************************************************************************)
RECURSIVE StripTrailingSlashes(_)
StripTrailingSlashes(p) ==
    IF Len(p) > 1 /\ p[Len(p)] = Slash
    THEN StripTrailingSlashes(SubSeq(p, 1, Len(p) - 1))
    ELSE p

LastIndexOf(s, c) ==
    LET hits == {i \in 1..Len(s) : s[i] = c}
    IN  IF hits = {} THEN 0 ELSE CHOOSE i \in hits : \A j \in hits : j <= i

basename(p) ==
    LET q == StripTrailingSlashes(p)
        k == LastIndexOf(q, Slash)
    IN  IF q = <<Slash>> THEN <<>> ELSE SubSeq(q, k + 1, Len(q))

\* the extension runs from the last dot of the name to its end; a name with
\* no dot, a name whose only dot is its first character, and ".." have none
extname(file) ==
    LET name == basename(file)
        k == LastIndexOf(name, Dot)
    IN  IF k <= 1 \/ name = <<Dot, Dot>>
        THEN <<>>
        ELSE SubSeq(name, k, Len(name))

(***************************************************************************)
(* countFileTypes                                                          *)
(*                                                                         *)
(* The returned object is a record: the fixed keys, and exts, the          *)
(* extension keys with their counts in insertion order (every extension    *)
(* key starts with a dot, so none is an integer-like key and               *)
(* Object.entries lists them in insertion order, after directories/files). *)
(***************************************************************************)
EmptyCounts ==
    [error |-> FALSE, directories |-> 0, files |-> 0, noExtension |-> 0,
     exts |-> <<>>]

\* counts[ext] = (counts[ext] || 0) + 1
Bump(exts, ext) ==
    IF \E i \in 1..Len(exts) : exts[i][1] = ext
    THEN [i \in 1..Len(exts) |->
            IF exts[i][1] = ext THEN <<ext, exts[i][2] + 1>> ELSE exts[i]]
    ELSE Append(exts, <<ext, 1>>)

\* one iteration of the for loop over the directory listing
CountEntry(counts, e) ==
    IF ~e.ok
    THEN counts
    ELSE IF e.isDir
    THEN [counts EXCEPT !.directories = @ + 1]
    ELSE LET ext == ToLowerCase(extname(e.name))
         IN  IF ext # <<>>
             THEN [counts EXCEPT !.files = @ + 1, !.exts = Bump(@, ext)]
             ELSE [counts EXCEPT !.files = @ + 1, !.noExtension = @ + 1]

RECURSIVE CountLoop(_, _)
CountLoop(counts, entries) ==
    IF entries = <<>>
    THEN counts
    ELSE CountLoop(CountEntry(counts, Head(entries)), Tail(entries))

\* readOk: whether fs.readdirSync(directoryPath) succeeds in this call
countFileTypes(fsys, directoryPath, readOk) ==
    IF readOk
    THEN CountLoop(EmptyCounts, fsys[directoryPath].entries)
    ELSE [EmptyCounts EXCEPT !.error = TRUE]

(***************************************************************************)
(* calculateDirSize                                                        *)
(***************************************************************************)
RECURSIVE SizeLoop(_, _)
SizeLoop(totalSize, entries) ==
    IF entries = <<>>
    THEN totalSize
    ELSE LET e == Head(entries)
         IN  SizeLoop(IF e.ok THEN totalSize + e.size ELSE totalSize,
                      Tail(entries))

calculateDirSize(fsys, dirPath, readOk) ==
    IF readOk THEN SizeLoop(0, fsys[dirPath].entries) ELSE 0

(***************************************************************************)
(* SelectedItemProvider.getChildren                                        *)
(***************************************************************************)
\* new DirectoryItem(label, None, fullPath?, contextValue?); the label is
\* kept as its template tag and the interpolated value
Item(tag, val, fullPath, contextValue) ==
    [tag |-> tag, val |-> val, fullPath |-> fullPath,
     contextValue |-> contextValue]

Info(tag, val) == Item(tag, val, Undefined, "")

\* Number.prototype.toString(8)
RECURSIVE ToOctal(_)
ToOctal(n) == IF n < 8 THEN <<n>> ELSE ToOctal(n \div 8) \o <<n % 8>>

\* Array.prototype.sort((a, b) => b[1] - a[1]): stable, descending by count
InsertDesc(sorted, x) ==
    LET k == Cardinality({i \in 1..Len(sorted) : sorted[i][2] >= x[2]})
    IN  SubSeq(sorted, 1, k) \o <<x>> \o SubSeq(sorted, k + 1, Len(sorted))

InsertAsc(sorted, x) ==
    LET k == Cardinality({i \in 1..Len(sorted) : sorted[i][2] <= x[2]})
    IN  SubSeq(sorted, 1, k) \o <<x>> \o SubSeq(sorted, k + 1, Len(sorted))

RECURSIVE SortAscFrom(_, _)
SortAscFrom(sorted, rest) ==
    IF rest = <<>>
    THEN sorted
    ELSE SortAscFrom(InsertAsc(sorted, Head(rest)), Tail(rest))

SortByCountAsc(entries) == SortAscFrom(<<>>, entries)

RECURSIVE SortDescFrom(_, _)
SortDescFrom(sorted, rest) ==
    IF rest = <<>>
    THEN sorted
    ELSE SortDescFrom(InsertDesc(sorted, Head(rest)), Tail(rest))

SortByCountDesc(entries) == SortDescFrom(<<>>, entries)

\* fs.readdirSync(p) succeeds: the call is not failed by the environment
\* (callOk) and p is a directory
ReaddirOk(fsys, p, callOk) ==
    callOk /\ p \in DOMAIN fsys /\ fsys[p].kind = "dir"

\* the rows for counts.directories > 0 and counts.files > 0; on the
\* { error: 1 } object both keys are undefined and neither test passes
CountRows(counts) ==
    (IF ~counts.error /\ counts.directories > 0
     THEN <<Info("Subdirectories", counts.directories)>> ELSE <<>>)
    \o
    (IF ~counts.error /\ counts.files > 0
     THEN <<Info("Files", counts.files)>> ELSE <<>>)

\* Object.entries(counts).filter(...).sort(...).slice(0, 3) and the
\* 'Common types' row built from it
CommonTypesRows(counts) ==
    LET extensions == SubSeq(SortByCountDesc(counts.exts), 1,
                             Min(3, Len(counts.exts)))
        extensionSummary ==
            [i \in 1..Len(extensions) |->
               <<Substring(extensions[i][1], 1, Len(extensions[i][1])),
                 extensions[i][2]>>]
    IN  IF Len(extensions) > 0
        THEN <<Info("Common types", extensionSummary)>>
        ELSE <<>>

\* the directory branch, lines 224-293; env gives the outcome of each of
\* the three readdirSync calls made on the selected path
DirectoryRows(fsys, p, env) ==
    LET dirSize == calculateDirSize(fsys, p, ReaddirOk(fsys, p, env.size))
        sizeRow == <<Info("Size (approx)", formatSize(dirSize))>>
    IN  IF ReaddirOk(fsys, p, env.list)
        THEN LET counts ==
                   countFileTypes(fsys, p, ReaddirOk(fsys, p, env.count))
             IN  sizeRow
                   \o <<Info("Contains", Len(fsys[p].entries))>>
                   \o CountRows(counts)
                   \o CommonTypesRows(counts)
        ELSE sizeRow \o <<Info("Error reading directory contents", <<>>)>>

\* the file branch, lines 204-223
FileRows(stats, itemName) ==
    LET extension == extname(itemName)
    IN  <<Info("Size", formatSize(stats.size))>>
          \o (IF extension # <<>>
              THEN <<Info("Type", Substring(extension, 1, Len(extension)))>>
              ELSE <<>>)

\* a summary that pushes the identity row before statSync has succeeded
SelectionRowsStatLate(fsys, p, env) ==
    IF StatThrows(fsys, p)
    THEN <<Item("File", basename(p), Uri(p), "file"),
           Info("Error reading file information", <<>>)>>
    ELSE <<Item(IF fsys[p].kind = "dir" THEN "Directory" ELSE "File",
                basename(p), Uri(p),
                IF fsys[p].kind = "dir" THEN "directory" ELSE "file"),
           Info("Created", fsys[p].birthtime),
           Info("Modified", fsys[p].mtime),
           Info("Permissions", ToOctal(fsys[p].mode % 512))>>
         \o (IF fsys[p].kind = "dir"
             THEN DirectoryRows(fsys, p, env)
             ELSE FileRows(fsys[p], basename(p)))

\* the selection branch, lines 160-303
SelectionRows(fsys, p, env) ==
    IF StatThrows(fsys, p)
    THEN <<Info("Error reading file information", <<>>)>>
    ELSE LET stats == fsys[p]
             itemName == basename(p)
             isDirectory == stats.kind = "dir"
         IN  <<Item(IF isDirectory THEN "Directory" ELSE "File", itemName,
                    Uri(p), IF isDirectory THEN "directory" ELSE "file"),
               Info("Created", stats.birthtime),
               Info("Modified", stats.mtime),
               Info("Permissions", ToOctal(stats.mode % 512))>>
             \o (IF isDirectory
                 THEN DirectoryRows(fsys, p, env)
                 ELSE FileRows(stats, itemName))

\* a workspace branch that also emits the top-3 summary
WorkspaceRowsWithTypes(fsys, root, env) ==
    <<Item("Workspace", basename(root), Uri(root), "directory")>>
    \o (IF ReaddirOk(fsys, root, env.list)
        THEN <<Info("Root contains", Len(fsys[root].entries))>>
             \o CountRows(countFileTypes(fsys, root,
                                         ReaddirOk(fsys, root, env.count)))
             \o CommonTypesRows(countFileTypes(fsys, root,
                                         ReaddirOk(fsys, root, env.count)))
        ELSE <<>>)

\* the workspace branch, lines 305-349
WorkspaceRows(fsys, root, env) ==
    <<Item("Workspace", basename(root), Uri(root), "directory")>>
    \o (IF ReaddirOk(fsys, root, env.list)
        THEN <<Info("Root contains", Len(fsys[root].entries))>>
             \o CountRows(countFileTypes(fsys, root,
                                         ReaddirOk(fsys, root, env.count)))
        ELSE <<>>)

getChildren(element, selection, root, fsys, env) ==
    IF element
    THEN <<>>
    ELSE IF selection.defined
    THEN SelectionRows(fsys, selection.fsPath, env)
    ELSE IF root.defined /\ root.fsPath # <<>>
    THEN WorkspaceRows(fsys, root.fsPath, env)
    ELSE <<Info("No workspace or selection", <<>>)>>

Envs == [size : BOOLEAN, list : BOOLEAN, count : BOOLEAN]
AllOk == [size |-> TRUE, list |-> TRUE, count |-> TRUE]

(***************************************************************************)
(* Specifications of the pure helpers: Init draws the input, the action    *)
(* applies the function.                                                   *)
(***************************************************************************)
\* the provider and the event wiring stand still in these specifications
ProviderAtRest ==
    /\ currentSelection = Undefined
    /\ workspaceRoot = Undefined
    /\ fired = 0
    /\ fs = <<>>
    /\ rows = <<>>
    /\ last = [op |-> "none"]
    /\ pending = {}
    /\ clipboard = <<>>
    /\ nextSeq = 0

providerVars == <<currentSelection, workspaceRoot, fired, fs, rows, last,
                  pending, clipboard, nextSeq>>

MaxPathLen == 44
PathBases == {40, 64, 96}

\* the string of length n whose i-th code unit is base + i
PathInputs ==
    {[i \in 1..n |-> base + i] : n \in 0..MaxPathLen, base \in PathBases}

InitFormatPath ==
    /\ pc = "input"
    /\ arg \in PathInputs
    /\ result = <<>>
    /\ ProviderAtRest

FormatPathCall ==
    /\ pc = "input"
    /\ result' = formatPath(arg)
    /\ pc' = "done"
    /\ UNCHANGED <<arg, providerVars>>

SpecFormatPath == InitFormatPath /\ [][FormatPathCall]_vars

MaxMult == 2
Steps == 64

\* byte counts around every 1/64 of a unit (the ties of the rounding are
\* among them), for the first multiples of each unit and the last below
\* the next unit
SizeInputs ==
    {b \in {q * unit + t * (unit \div Steps) + d :
              unit \in {KiB, MiB}, q \in (0..MaxMult) \cup {KiB - 1},
              t \in 0..Steps, d \in -1..1}
           \cup
           {MiB * KiB + t * ((MiB * KiB) \div Steps) + d :
              t \in 0..(Steps - 1), d \in -1..1} : b >= 0}

InitFormatSize ==
    /\ pc = "input"
    /\ arg \in SizeInputs
    /\ result = <<>>
    /\ ProviderAtRest

FormatSizeCall ==
    /\ pc = "input"
    /\ result' = formatSize(arg)
    /\ pc' = "done"
    /\ UNCHANGED <<arg, providerVars>>

SpecFormatSize == InitFormatSize /\ [][FormatSizeCall]_vars

(***************************************************************************)
(* C5: formatPath(p) = p when Len(p) <= 40; otherwise the result has       *)
(* length 37 and is the first 17 characters of p, then "...", then the     *)
(* last 17 characters of p.                                                *)
(***************************************************************************)
C5_FormatPath ==
    pc = "done" =>
        /\ Len(arg) <= 40 => result = arg
        /\ Len(arg) > 40 =>
             /\ Len(result) = 37
             /\ \A i \in 1..17 : result[i] = arg[i]
             /\ \A i \in 18..20 : result[i] = 46
             /\ \A i \in 1..17 : result[20 + i] = arg[Len(arg) - 17 + i]

C5_Witness == pc = "done" /\ Len(arg) = 41 /\ Len(result) = 37

(***************************************************************************)
(* C6: formatSize(b) is "<b> bytes" below 1024, and otherwise uses KB, MB  *)
(* or GB by the 1024-based thresholds and shows b divided by the unit with *)
(* exactly one digit after the decimal point.                              *)
(***************************************************************************)
\* num has one decimal digit and is within 0.05 of bytes / (unitHi * unitLo)
OneDecimalOf(num, bytes, unitHi, unitLo) ==
    LET unit == unitHi * unitLo
        q == bytes \div unit
        r == bytes % unit
        rh == r \div unitLo
        rl == r % unitLo
        delta == 10 * num.int + num.frac[1] - 10 * q
    IN  /\ Len(num.frac) = 1
        /\ num.frac[1] \in 0..9
        /\ delta \in 0..10
        /\ 20 * rh + ((20 * rl) \div unitLo) >= (2 * delta - 1) * unitHi
        /\ 20 * rh + ((20 * rl + unitLo - 1) \div unitLo) <= (2 * delta + 1) * unitHi

C6_FormatSize ==
    pc = "done" =>
        /\ arg < 1024 =>
             result.unit = "bytes" /\ result.num.int = arg
               /\ result.num.frac = <<>>
        /\ (arg >= 1024 /\ arg < 1048576) =>
             result.unit = "KB" /\ OneDecimalOf(result.num, arg, 1024, 1)
        /\ (arg >= 1048576 /\ arg < 1073741824) =>
             result.unit = "MB" /\ OneDecimalOf(result.num, arg, 1048576, 1)
        /\ arg >= 1073741824 =>
             result.unit = "GB" /\ OneDecimalOf(result.num, arg, 1048576, 1024)

C6_Witness ==
    /\ pc = "done"
    /\ arg = 1048575
    /\ result.unit = "KB"
    /\ result.num = [int |-> 1024, frac |-> <<0>>]

(***************************************************************************)
(* Specification of the directory summary: Init draws the listing of the   *)
(* selected directory, the action summarizes it.                           *)
(***************************************************************************)
MaxChildren == 4

DirP == <<47, 100>>                       \* "/d"

\* "a.t", "b.T", "c.m", "d.j", "e.k", "f"
Names ==
    {<<97, 46, 116>>, <<98, 46, 84>>, <<99, 46, 109>>, <<100, 46, 106>>,
     <<101, 46, 107>>, <<102>>}

\* a child is a file, a directory, or an entry whose statSync throws
Children ==
    {Entry(n, TRUE, FALSE, 700) : n \in Names}
      \cup {Entry(n, TRUE, TRUE, 4096) : n \in Names}
      \cup {Entry(n, FALSE, FALSE, 0) : n \in Names}

\* the listings readdirSync can return: no name twice
Listings ==
    UNION {{l \in [1..n -> Children] :
              \A i, j \in 1..n : l[i].name = l[j].name => i = j} :
           n \in 0..MaxChildren}

DirNode(entries) == Node("dir", 4096, 11, 12, 16877, entries)

InitSummary ==
    /\ pc = "input"
    /\ arg \in {DirP :> DirNode(l) : l \in Listings}
    /\ result = <<>>
    /\ ProviderAtRest

SummarizeCall ==
    /\ pc = "input"
    /\ result' = getChildren(FALSE, Uri(DirP), Undefined, arg, AllOk)
    /\ pc' = "done"
    /\ UNCHANGED <<arg, providerVars>>

SpecSummary == InitSummary /\ [][SummarizeCall]_vars

(***************************************************************************)
(* C4: for a directory whose children all stat successfully, the 'Files'   *)
(* count is the number of non-directory children, the 'Subdirectories'     *)
(* count the number of directory children, and 'Common types' lists at     *)
(* most the 3 most frequent lower-cased extensions as <ext, count>, in     *)
(* descending order of count, ties broken by first-seen order.             *)
(***************************************************************************)
RowsTagged(rs, tag) == {i \in 1..Len(rs) : rs[i].tag = tag}

C4_Listing == arg[DirP].entries

C4_FileIdx == {i \in 1..Len(C4_Listing) : ~C4_Listing[i].isDir}

C4_ExtAt(i) == ToLowerCase(extname(C4_Listing[i].name))

C4_Exts == {C4_ExtAt(i) : i \in C4_FileIdx} \ {<<>>}

C4_Count(x) == Cardinality({i \in C4_FileIdx : C4_ExtAt(i) = x})

C4_First(x) ==
    CHOOSE i \in C4_FileIdx :
        C4_ExtAt(i) = x /\ \A j \in C4_FileIdx : C4_ExtAt(j) = x => i <= j

\* x is listed before y
C4_Before(x, y) ==
    \/ C4_Count(x) > C4_Count(y)
    \/ C4_Count(x) = C4_Count(y) /\ C4_First(x) < C4_First(y)

C4_Rank(x) == 1 + Cardinality({y \in C4_Exts : C4_Before(y, x)})

C4_CountRow(tag, n) ==
    IF n > 0
    THEN \E i \in 1..Len(result) :
            RowsTagged(result, tag) = {i} /\ result[i].val = n
    ELSE RowsTagged(result, tag) = {}

C4_DirectorySummary ==
    (pc = "done" /\ \A i \in 1..Len(C4_Listing) : C4_Listing[i].ok) =>
        /\ C4_CountRow("Files", Cardinality(C4_FileIdx))
        /\ C4_CountRow("Subdirectories",
                       Len(C4_Listing) - Cardinality(C4_FileIdx))
        /\ IF C4_Exts = {}
           THEN RowsTagged(result, "Common types") = {}
           ELSE \E i \in 1..Len(result) :
                  /\ RowsTagged(result, "Common types") = {i}
                  /\ Len(result[i].val) = Min(3, Cardinality(C4_Exts))
                  /\ \A x \in C4_Exts :
                       C4_Rank(x) <= 3 =>
                         result[i].val[C4_Rank(x)]
                           = <<SubSeq(x, 2, Len(x)), C4_Count(x)>>

\* children {a.t, b.T, c.m, d.j/}: Files 3, Subdirectories 1, t: 2, m: 1
C4_Witness ==
    /\ pc = "done"
    /\ C4_Listing = <<Entry(<<97, 46, 116>>, TRUE, FALSE, 700),
                      Entry(<<98, 46, 84>>, TRUE, FALSE, 700),
                      Entry(<<99, 46, 109>>, TRUE, FALSE, 700),
                      Entry(<<100, 46, 106>>, TRUE, TRUE, 4096)>>
    /\ \E i \in 1..Len(result) :
          /\ result[i].tag = "Common types"
          /\ result[i].val = << <<(<<116>>), 2>>, <<(<<109>>), 1>> >>
    /\ \E i \in 1..Len(result) : result[i].tag = "Files" /\ result[i].val = 3
    /\ \E i \in 1..Len(result) :
          result[i].tag = "Subdirectories" /\ result[i].val = 1

(***************************************************************************)
(* SelectedItemProvider.refresh and the provider driven through its API:   *)
(* refresh(selection?), getChildren(element?), and the filesystem changing *)
(* underneath.                                                             *)
(***************************************************************************)
MaxFired == 2

FileP == <<47, 102, 46, 116>>             \* "/f.t"
RootP == <<47, 119>>                      \* "/w"
Paths == {FileP, DirP, RootP}

Missing == Node("missing", 0, 0, 0, 0, <<>>)
FileNode == Node("file", 2048, 21, 22, 33188, <<>>)

SmallListings ==
    {<<>>,
     <<Entry(<<97, 46, 116>>, TRUE, FALSE, 700),
       Entry(<<98, 46, 84>>, TRUE, FALSE, 700),
       Entry(<<99, 46, 109>>, TRUE, FALSE, 700),
       Entry(<<100, 46, 106>>, TRUE, TRUE, 4096)>>,
     <<Entry(<<102>>, FALSE, FALSE, 0),
       Entry(<<100, 46, 106>>, TRUE, TRUE, 4096)>>}

Nodes == {Missing, FileNode} \cup {DirNode(l) : l \in SmallListings}

Selections == {Undefined} \cup {Uri(p) : p \in Paths}

Op(op, selection, element, env, refreshed, calls) ==
    [op |-> op, selection |-> selection, element |-> element, env |-> env,
     refreshed |-> refreshed, calls |-> calls]

\* a refresh that keeps the old selection when called without an argument
refreshKeepOnUndefined(selection) ==
    /\ currentSelection' = IF selection.defined THEN selection
                           ELSE currentSelection
    /\ fired' = fired + 1

refresh(selection) ==
    /\ currentSelection' = selection
    /\ fired' = fired + 1

InitProvider ==
    /\ pc = "run"
    /\ arg = <<>>
    /\ result = <<>>
    /\ currentSelection = Undefined
    /\ workspaceRoot \in {Undefined, Uri(RootP)}
    /\ fired = 0
    /\ fs \in {f \in [Paths -> Nodes] : f[RootP].kind = "dir"}
    /\ rows = <<>>
    /\ last = Op("none", Undefined, FALSE, AllOk, Undefined, 0)
    /\ pending = {}
    /\ clipboard = <<>>
    /\ nextSeq = 0

RefreshCall(selection) ==
    /\ fired < MaxFired
    /\ refresh(selection)
    /\ last' = Op("refresh", selection, FALSE, AllOk, selection, 1)
    /\ UNCHANGED <<pc, arg, result, workspaceRoot, fs, rows, pending,
                   clipboard, nextSeq>>

GetChildrenCall(element, env) ==
    /\ rows' = getChildren(element, currentSelection, workspaceRoot, fs, env)
    /\ last' = Op("getChildren", Undefined, element, env, last.refreshed,
                  last.calls)
    /\ UNCHANGED <<pc, arg, result, currentSelection, workspaceRoot, fired,
                   fs, pending, clipboard, nextSeq>>

\* another process creates, removes or replaces what is at a path
FsChange(p, node) ==
    /\ fs[p] # node
    /\ fs' = [fs EXCEPT ![p] = node]
    /\ last' = Op("fs", Undefined, FALSE, AllOk, last.refreshed, last.calls)
    /\ UNCHANGED <<pc, arg, result, currentSelection, workspaceRoot, fired,
                   rows, pending, clipboard, nextSeq>>

NextProvider ==
    \/ \E selection \in Selections : RefreshCall(selection)
    \/ \E element \in BOOLEAN, env \in Envs : GetChildrenCall(element, env)
    \/ \E p \in Paths, node \in Nodes : FsChange(p, node)

SpecProvider == InitProvider /\ [][NextProvider]_vars

(***************************************************************************)
(* C1: after any sequence of refresh calls the selection is the argument   *)
(* of the last call (undefined for refresh()), and the rows getChildren    *)
(* then returns are those of that last selection alone.                    *)
(***************************************************************************)
C1_LastRefreshWins ==
    last.calls > 0 =>
        /\ currentSelection = last.refreshed
        /\ last.op = "getChildren" =>
             rows = getChildren(last.element, last.refreshed, workspaceRoot,
                                fs, last.env)

\* refresh() after a selection was held, then rows of the workspace
C1_Witness ==
    /\ last.op = "getChildren"
    /\ ~last.element
    /\ last.calls > 0
    /\ ~last.refreshed.defined
    /\ fired = 2
    /\ rows[1].tag = "Workspace"

(***************************************************************************)
(* C3: when statSync of the selected path fails, getChildren returns       *)
(* exactly one row, 'Error reading file information'.                      *)
(***************************************************************************)
C3_StatFailureOneRow ==
    (/\ last.op = "getChildren"
     /\ ~last.element
     /\ currentSelection.defined
     /\ StatThrows(fs, currentSelection.fsPath)) =>
        /\ Len(rows) = 1
        /\ rows[1].tag = "Error reading file information"

C3_Witness ==
    /\ last.op = "getChildren"
    /\ ~last.element
    /\ currentSelection = Uri(FileP)
    /\ fs[FileP] = Missing
    /\ Len(rows) = 1

(***************************************************************************)
(* C7 as stated: with no selection held, a known workspace root gives the  *)
(* 'Workspace' identity row followed by the root's item count and its      *)
(* Subdirectories / Files counts (each only when > 0) and no 'Common       *)
(* types' row; no workspace root gives exactly the placeholder row.        *)
(***************************************************************************)
C7_RootKnown == workspaceRoot.defined /\ workspaceRoot.fsPath # <<>>

C7_Case == last.op = "getChildren" /\ ~last.element /\ ~currentSelection.defined

C7_Entries == fs[workspaceRoot.fsPath].entries

C7_Dirs ==
    Cardinality({i \in 1..Len(C7_Entries) :
                   C7_Entries[i].ok /\ C7_Entries[i].isDir})

C7_Files ==
    Cardinality({i \in 1..Len(C7_Entries) :
                   C7_Entries[i].ok /\ ~C7_Entries[i].isDir})

\* rows from the third on: Subdirectories d if d > 0, then Files f if f > 0
C7_CountTail(d, f) ==
    /\ Len(rows) = 2 + (IF d > 0 THEN 1 ELSE 0) + (IF f > 0 THEN 1 ELSE 0)
    /\ d > 0 => rows[3].tag = "Subdirectories" /\ rows[3].val = d
    /\ f > 0 => rows[Len(rows)].tag = "Files" /\ rows[Len(rows)].val = f

C7_Placeholder ==
    ~C7_RootKnown =>
        Len(rows) = 1 /\ rows[1].tag = "No workspace or selection"

C7_Identity ==
    C7_RootKnown =>
        /\ Len(rows) >= 1
        /\ rows[1].tag = "Workspace"
        /\ rows[1].val = basename(workspaceRoot.fsPath)
        /\ RowsTagged(rows, "Common types") = {}

C8_ListingFailureSurfaced ==
    (/\ last.op = "getChildren"
     /\ ~last.element
     /\ currentSelection.defined
     /\ existsSync(fs, currentSelection.fsPath)
     /\ fs[currentSelection.fsPath].kind = "dir"
     /\ ~(last.env.size /\ last.env.list /\ last.env.count)) =>
        /\ Cardinality(RowsTagged(rows, "Error reading directory contents")) = 1
        /\ RowsTagged(rows, "Subdirectories") = {}
        /\ RowsTagged(rows, "Files") = {}
        /\ RowsTagged(rows, "Common types") = {}

(***************************************************************************)
(* The event wiring of activate: the editor-focus handler, the             *)
(* window-state handler with its clipboard round trip, and the             *)
(* codelens.selectPath command.  A handler that waits on a promise sits in *)
(* pending until the promise settles; each step is one turn of the event   *)
(* loop.                                                                   *)
(***************************************************************************)
MaxEvents == 3

DriveP == <<99, 58, 47, 100>>             \* "c:/d"
ExtPaths == {FileP, DriveP}

\* "", "h w", "/f.t", "c:/d", "C:/d"
ClipTexts == {<<>>, <<104, 32, 119>>, FileP, DriveP, <<67, 58, 47, 100>>}

IsLetter(c) == (c >= 65 /\ c <= 90) \/ (c >= 97 /\ c <= 122)

\* vscode.Uri.file(text).fsPath on a posix host: a leading slash is added
\* when missing, and a path of the form /X:... loses that slash and has its
\* drive letter lower-cased
UriFile(text) ==
    LET path == IF text # <<>> /\ text[1] = Slash THEN text
                ELSE <<Slash>> \o text
    IN  IF Len(path) >= 3 /\ IsLetter(path[2]) /\ path[3] = Colon
        THEN Uri(<<LowerChar(path[2])>> \o SubSeq(path, 3, Len(path)))
        ELSE Uri(path)

\* a clipboard callback that skips the existsSync test
ClipboardSelectionUnchecked(fsys, text) ==
    IF text # <<>>
         /\ (StartsWith(text, <<Slash>>) \/ Includes(text, <<Colon, Slash>>))
    THEN UriFile(text)
    ELSE Undefined

\* the readText callback, lines 404-415: the uri it passes to refresh, or
\* Undefined when it makes no call
ClipboardSelection(fsys, text) ==
    IF text # <<>>
         /\ (StartsWith(text, <<Slash>>) \/ Includes(text, <<Colon, Slash>>))
    THEN LET uri == UriFile(text)
         IN  IF existsSync(fsys, uri.fsPath) THEN uri ELSE Undefined
    ELSE Undefined

ExtOp(op, seq, text, uri, writer) ==
    [op |-> op, seq |-> seq, text |-> text, uri |-> uri, writer |-> writer]

Handler(stage, seq) == [stage |-> stage, seq |-> seq]

extFrame == <<arg, result, workspaceRoot, rows>>

InitExtension ==
    /\ pc = "activate"
    /\ arg = <<>>
    /\ result = <<>>
    /\ currentSelection = Undefined
    /\ workspaceRoot \in {Undefined, Uri(RootP)}
    /\ fired = 0
    /\ fs \in [ExtPaths -> {Missing, FileNode}]
    /\ rows = <<>>
    /\ last = ExtOp("none", 0, <<>>, Undefined, 0)
    /\ pending = {}
    /\ clipboard \in ClipTexts
    /\ nextSeq = 1

\* refresh(uri) on behalf of event seq when uri is defined, no call otherwise
RefreshIfDefined(op, seq, text, uri) ==
    IF uri.defined
    THEN /\ refresh(uri)
         /\ last' = ExtOp(op, seq, text, uri, seq)
    ELSE /\ UNCHANGED <<currentSelection, fired>>
         /\ last' = ExtOp(op, seq, text, uri, last.writer)

\* lines 366-442: the body of activate, with the active editor at startup
Activate(activeTextEditor) ==
    /\ pc = "activate"
    /\ pc' = "running"
    /\ RefreshIfDefined("activate", 0, <<>>, activeTextEditor)
    /\ UNCHANGED <<extFrame, fs, pending, clipboard, nextSeq>>

\* an editor-focus handler that defers its refresh to a later turn
OnDidChangeActiveTextEditorDeferred(editor) ==
    /\ pc = "running"
    /\ nextSeq <= MaxEvents
    /\ nextSeq' = nextSeq + 1
    /\ pending' = pending \cup {Handler("dialog", nextSeq)}
    /\ last' = ExtOp("editor", nextSeq, <<>>, editor, last.writer)
    /\ UNCHANGED <<pc, extFrame, fs, clipboard, currentSelection, fired>>

\* an editor-focus handler that refreshes without testing editor
OnDidChangeActiveTextEditorUnguarded(editor) ==
    /\ pc = "running"
    /\ nextSeq <= MaxEvents
    /\ nextSeq' = nextSeq + 1
    /\ refresh(editor)
    /\ last' = ExtOp("editor", nextSeq, <<>>, editor, nextSeq)
    /\ UNCHANGED <<pc, extFrame, fs, pending, clipboard>>

\* lines 389-393
OnDidChangeActiveTextEditor(editor) ==
    /\ pc = "running"
    /\ nextSeq <= MaxEvents
    /\ nextSeq' = nextSeq + 1
    /\ RefreshIfDefined("editor", nextSeq, <<>>, editor)
    /\ UNCHANGED <<pc, extFrame, fs, pending, clipboard>>

\* line 398-401: the handler issues copyFilePath and waits
OnDidChangeWindowState ==
    /\ pc = "running"
    /\ nextSeq <= MaxEvents
    /\ nextSeq' = nextSeq + 1
    /\ pending' = pending \cup {Handler("copy", nextSeq)}
    /\ last' = ExtOp("window", nextSeq, <<>>, Undefined, last.writer)
    /\ UNCHANGED <<pc, extFrame, fs, clipboard, currentSelection, fired>>

\* lines 402-404: copyFilePath fulfilled (the host may have put the explorer
\* selection on the clipboard); the callback issues readText and waits
CopyFilePathFulfilled(h, text) ==
    /\ h \in pending
    /\ h.stage = "copy"
    /\ clipboard' = text
    /\ pending' = (pending \ {h}) \cup {Handler("read", h.seq)}
    /\ last' = ExtOp("copied", h.seq, text, Undefined, last.writer)
    /\ UNCHANGED <<pc, extFrame, fs, currentSelection, fired, nextSeq>>

\* line 417: copyFilePath rejected, the handler ends
CopyFilePathRejected(h) ==
    /\ h \in pending
    /\ h.stage = "copy"
    /\ pending' = pending \ {h}
    /\ last' = ExtOp("rejected", h.seq, <<>>, Undefined, last.writer)
    /\ UNCHANGED <<pc, extFrame, fs, clipboard, currentSelection, fired,
                   nextSeq>>

\* lines 404-415: readText fulfilled with the clipboard text
ClipboardReadDone(h) ==
    /\ h \in pending
    /\ h.stage = "read"
    /\ pending' = pending \ {h}
    /\ RefreshIfDefined("clipboardRead", h.seq, clipboard,
                        ClipboardSelection(fs, clipboard))
    /\ UNCHANGED <<pc, extFrame, fs, clipboard, nextSeq>>

\* lines 423-431: the command opens the dialog and awaits it
SelectPathCommand ==
    /\ pc = "running"
    /\ nextSeq <= MaxEvents
    /\ nextSeq' = nextSeq + 1
    /\ pending' = pending \cup {Handler("dialog", nextSeq)}
    /\ last' = ExtOp("selectPath", nextSeq, <<>>, Undefined, last.writer)
    /\ UNCHANGED <<pc, extFrame, fs, clipboard, currentSelection, fired>>

\* lines 431-434: the dialog settles; picked is fileUri[0], or Undefined
\* when the dialog was cancelled
DialogDone(h, picked) ==
    /\ h \in pending
    /\ h.stage = "dialog"
    /\ pending' = pending \ {h}
    /\ RefreshIfDefined("dialogDone", h.seq, <<>>, picked)
    /\ UNCHANGED <<pc, extFrame, fs, clipboard, nextSeq>>

\* the user or another program copies a text
SetClipboard(text) ==
    /\ pc = "running"
    /\ clipboard # text
    /\ clipboard' = text
    /\ last' = ExtOp("clipboard", 0, text, Undefined, last.writer)
    /\ UNCHANGED <<pc, extFrame, fs, pending, currentSelection, fired,
                   nextSeq>>

\* a path is created or removed on disk
ExtFsChange(p, node) ==
    /\ pc = "running"
    /\ fs[p] # node
    /\ fs' = [fs EXCEPT ![p] = node]
    /\ last' = ExtOp("fs", 0, <<>>, Undefined, last.writer)
    /\ UNCHANGED <<pc, extFrame, pending, clipboard, currentSelection, fired,
                   nextSeq>>

ExtUris == {Uri(p) : p \in ExtPaths}

NextExtension ==
    \/ \E ed \in ExtUris \cup {Undefined} : Activate(ed)
    \/ \E ed \in ExtUris \cup {Undefined} : OnDidChangeActiveTextEditor(ed)
    \/ OnDidChangeWindowState
    \/ \E h \in pending, text \in ClipTexts : CopyFilePathFulfilled(h, text)
    \/ \E h \in pending : CopyFilePathRejected(h)
    \/ \E h \in pending : ClipboardReadDone(h)
    \/ SelectPathCommand
    \/ \E h \in pending, picked \in ExtUris \cup {Undefined} :
          DialogDone(h, picked)
    \/ \E text \in ClipTexts : SetClipboard(text)
    \/ \E p \in ExtPaths, node \in {Missing, FileNode} : ExtFsChange(p, node)

SpecExtension == InitExtension /\ [][NextExtension]_vars

(***************************************************************************)
(* C2: in the clipboard callback, a text that neither starts with "/" nor  *)
(* contains ":/" (the empty text included) leaves the selection unchanged  *)
(* and fires no notification; a text that matches changes the selection    *)
(* only if its path exists on disk at that moment, and otherwise leaves    *)
(* the selection unchanged.                                                *)
(***************************************************************************)
C2_PathLike(t) ==
    /\ Len(t) > 0
    /\ \/ t[1] = 47
       \/ \E i \in 1..(Len(t) - 1) : t[i] = 58 /\ t[i + 1] = 47

\* the path the callback tests: the text itself when it is absolute
C2_PathOf(t) == IF t[1] = 47 THEN t ELSE UriFile(t).fsPath

C2_OnDisk(t) ==
    C2_PathOf(t) \in DOMAIN fs /\ fs[C2_PathOf(t)].kind # "missing"

C2_ClipboardHeuristic ==
    [][(last'.op = "clipboardRead" /\ pending' # pending) =>
         /\ ~C2_PathLike(clipboard) =>
              currentSelection' = currentSelection /\ fired' = fired
         /\ (C2_PathLike(clipboard) /\ ~C2_OnDisk(clipboard)) =>
              currentSelection' = currentSelection /\ fired' = fired
         /\ (C2_PathLike(clipboard) /\ C2_OnDisk(clipboard)) =>
              /\ currentSelection' = Uri(C2_PathOf(clipboard))
              /\ fired' = fired + 1]_vars

\* "/f.t" was on the clipboard and on disk, and became the selection in
\* place of another one
C2_Witness ==
    /\ last.op = "clipboardRead"
    /\ last.text = FileP
    /\ last.writer = last.seq
    /\ currentSelection = Uri(FileP)
    /\ fired = 2

(***************************************************************************)
(* C9 as stated: the handling of an event, its refresh included, completes *)
(* in the turn in which the event arrived, so that a refresh made for an   *)
(* earlier event never executes after a refresh made for a later event.    *)
(***************************************************************************)
C9_AsStated == [][last'.writer >= last.writer]_vars

(***************************************************************************)
(* C9 amended: only the editor-focus handler completes in the turn of its  *)
(* event: its refresh runs in that turn, as the refresh of the newest      *)
(* event.  The window-state handler and the selectPath command suspend on  *)
(* their promises and refresh, if at all, in a later turn, one refresh per *)
(* turn, on behalf of a handler that was pending.                          *)
(***************************************************************************)
C9_EditorHandledInItsTurn ==
    [][/\ (last'.op = "editor" /\ nextSeq' # nextSeq /\ last'.uri.defined) =>
            /\ currentSelection' = last'.uri
            /\ fired' = fired + 1
            /\ last'.writer = nextSeq
       /\ (fired' # fired /\ last'.op \in {"clipboardRead", "dialogDone"}) =>
            /\ fired' = fired + 1
            /\ nextSeq' = nextSeq
            /\ last'.writer < nextSeq
            /\ \E h \in pending : h.seq = last'.writer /\ h \notin pending'
            /\ currentSelection' = last'.uri]_vars

\* an editor change refreshed, then the clipboard read of an earlier
\* window-state event refreshed after it
C9_Witness ==
    /\ last.op = "clipboardRead"
    /\ last.writer = 1
    /\ last.uri.defined
    /\ nextSeq > 2
    /\ fired >= 2

(***************************************************************************)
(* C10: under the wiring of activate the selection is never cleared: every *)
(* refresh passes a defined uri, so a held selection stays held after      *)
(* every later event, a focus change to no editor and a cancelled dialog   *)
(* included.                                                               *)
(***************************************************************************)
C10_NeverCleared ==
    [][/\ currentSelection.defined =>
            currentSelection'.defined
       /\ fired' # fired => currentSelection'.defined
       /\ (currentSelection.defined /\ ~last'.uri.defined
             /\ last'.op \in {"editor", "dialogDone"}) =>
            currentSelection' = currentSelection]_vars

\* a selection is held and the focus then moved to no editor
C10_Witness ==
    /\ last.op = "editor"
    /\ ~last.uri.defined
    /\ currentSelection.defined
    /\ fired >= 1

====
